---- MODULE Spec2Model ----
(***************************************************************************)
(* Model of langchain/vectorstores/redis/schema.py: the field schema       *)
(* classes, the RedisModel aggregate with its derived accessors, and       *)
(* read_schema.                                                            *)
(*                                                                         *)
(* Encoding of Python values                                               *)
(*   str        a sequence of one-character strings, <<"I","P">> for "IP"  *)
(*   dict       a record of options: Absent for a key the dict lacks,      *)
(*              Some(x) for a key it maps to x                             *)
(*   object     a record with a field cls naming its class                 *)
(*   exception  a record with a field cls naming the exception class       *)
(*   None/list  (where an attribute may be either) PyNone / PyList(seq)    *)
(* Validation follows pydantic's BaseModel as the classes declare it:      *)
(* required fields (Field(...)) must be present, a default is taken        *)
(* unvalidated when the key is absent, a Union is tried left to right.     *)
(***************************************************************************)
EXTENDS Integers, Sequences, FiniteSets, TLC

(* The attribute and key names of the records below, each with its rank in
   the order in which every record lists its fields. *)
AttributeOrder ==
    [cls |-> 1, t |-> 2, op |-> 3, has |-> 4, v |-> 5, errors |-> 6, msg |-> 7,
     got |-> 8, name |-> 9, sortable |-> 10, weight |-> 11, no_stem |-> 12,
     phonetic_matcher |-> 13, withsuffixtrie |-> 14, separator |-> 15,
     case_sensitive |-> 16, dims |-> 17, algorithm |-> 18, datatype |-> 19,
     distance_metric |-> 20, initial_cap |-> 21, block_size |-> 22, m |-> 23,
     ef_construction |-> 24, ef_runtime |-> 25, epsilon |-> 26, attributes |-> 27,
     TYPE |-> 28, DIM |-> 29, DISTANCE_METRIC |-> 30, INITIAL_CAP |-> 31,
     BLOCK_SIZE |-> 32, M |-> 33, EF_CONSTRUCTION |-> 34, EF_RUNTIME |-> 35,
     EPSILON |-> 36, tag |-> 37, text |-> 38, numeric |-> 39, geo |-> 40,
     vector |-> 41, content_key |-> 42, content_vector_key |-> 43,
     mapping |-> 44, path |-> 45, kw |-> 46, out |-> 47]

VARIABLES index_schema, model, ret, pc

vars == <<index_schema, model, ret, pc>>

----------------------------------------------------------------------------
(* Python strings *)

s_empty == <<>>
s_a == <<"a">>
s_b == <<"b">>
s_v == <<"v">>
s_w == <<"w">>
s_content == <<"c","o","n","t","e","n","t">>
s_content_vector == <<"c","o","n","t","e","n","t","_","v","e","c","t","o","r">>
s_FLAT == <<"F","L","A","T">>
s_HNSW == <<"H","N","S","W">>
s_IVF == <<"I","V","F">>
s_flat == <<"f","l","a","t">>
s_FLOAT32 == <<"F","L","O","A","T","3","2">>
s_float32 == <<"f","l","o","a","t","3","2">>
s_Float64 == <<"F","l","o","a","t","6","4">>
s_L2 == <<"L","2">>
s_l2 == <<"l","2">>
s_COSINE == <<"C","O","S","I","N","E">>
s_cosine == <<"c","o","s","i","n","e">>
s_Cosine == <<"C","o","s","i","n","e">>
s_IP == <<"I","P">>
s_ip == <<"i","p">>
s_XYZ == <<"X","Y","Z">>
s_xyz == <<"x","y","z">>
s_comma == <<",">>

LowerLetters ==
    <<"a","b","c","d","e","f","g","h","i","j","k","l","m",
      "n","o","p","q","r","s","t","u","v","w","x","y","z">>

UpperLetters ==
    <<"A","B","C","D","E","F","G","H","I","J","K","L","M",
      "N","O","P","Q","R","S","T","U","V","W","X","Y","Z">>

upper_char(c) ==
    IF \E i \in DOMAIN LowerLetters : LowerLetters[i] = c
    THEN UpperLetters[CHOOSE i \in DOMAIN LowerLetters : LowerLetters[i] = c]
    ELSE c

(* str.upper() *)
upper(v) == [i \in 1..Len(v) |-> upper_char(v[i])]

----------------------------------------------------------------------------
(* Python dicts and keyword arguments *)

Absent == [has |-> FALSE]
Some(x) == [has |-> TRUE, v |-> x]
Opt(S) == {Absent} \cup {Some(x) : x \in S}

Has(d, k) == d[k].has

Get(d, k, default) == IF Has(d, k) THEN d[k].v ELSE default

ValidationError(locs) == [cls |-> "ValidationError", errors |-> locs]

IsError(r) == r.cls \in {"ValidationError", "ValueError", "TypeError", "YAMLError", "OSError"}

----------------------------------------------------------------------------
(* Field schema classes *)

RedisDistanceMetric == {s_L2, s_COSINE, s_IP}

(* Variant of RedisFieldErrors: name constrained to be non-empty. *)
RedisFieldErrorsNonEmpty(kw) ==
    IF Has(kw, "name") /\ kw.name.v # s_empty THEN {} ELSE {"name"}

(* Locations of the fields of RedisField that fail validation. *)
RedisFieldErrors(kw) == IF Has(kw, "name") THEN {} ELSE {"name"}

TextFieldSchema(kw) ==
    IF RedisFieldErrors(kw) # {}
    THEN ValidationError(RedisFieldErrors(kw))
    ELSE [cls |-> "TextFieldSchema",
          name |-> kw.name.v,
          sortable |-> FALSE,
          weight |-> Get(kw, "weight", 1),
          no_stem |-> FALSE,
          phonetic_matcher |-> "None",
          withsuffixtrie |-> FALSE]

TagFieldSchema(kw) ==
    IF RedisFieldErrors(kw) # {}
    THEN ValidationError(RedisFieldErrors(kw))
    ELSE [cls |-> "TagFieldSchema",
          name |-> kw.name.v,
          sortable |-> FALSE,
          separator |-> s_comma,
          case_sensitive |-> FALSE]

NumericFieldSchema(kw) ==
    IF RedisFieldErrors(kw) # {}
    THEN ValidationError(RedisFieldErrors(kw))
    ELSE [cls |-> "NumericFieldSchema", name |-> kw.name.v, sortable |-> FALSE]

GeoFieldSchema(kw) ==
    IF RedisFieldErrors(kw) # {}
    THEN ValidationError(RedisFieldErrors(kw))
    ELSE [cls |-> "GeoFieldSchema", name |-> kw.name.v, sortable |-> FALSE]

(* Variant of uppercase_strings: the value is passed on as it is. *)
uppercase_strings_identity(v) == v

(* The pre-validator of datatype and distance_metric. *)
uppercase_strings(v) == upper(v)

DefaultDatatype == s_FLOAT32

DefaultDistanceMetric == s_COSINE

(* The stored datatype: a supplied value goes through the validator, the
   default is taken as declared. *)
VectorDatatype(kw) ==
    IF Has(kw, "datatype") THEN uppercase_strings(kw.datatype.v) ELSE DefaultDatatype

VectorDistanceMetric(kw) ==
    IF Has(kw, "distance_metric")
    THEN uppercase_strings(kw.distance_metric.v)
    ELSE DefaultDistanceMetric

(* Membership of the supplied (normalised) value in the enum. *)
DistanceMetricOk(kw) ==
    Has(kw, "distance_metric") => VectorDistanceMetric(kw) \in RedisDistanceMetric

(* Variant of RedisVectorFieldErrors: algorithm left as the base class
   declares it (any object), not narrowed to the subclass's Literal. *)
RedisVectorFieldErrorsAnyAlgorithm(kw, literal) ==
    (IF Has(kw, "name") THEN {} ELSE {"name"})
    \cup (IF Has(kw, "dims") THEN {} ELSE {"dims"})
    \cup (IF DistanceMetricOk(kw) THEN {} ELSE {"distance_metric"})

(* Locations failing in the fields RedisVectorField declares; `literal` is
   the subclass's Literal for algorithm. *)
RedisVectorFieldErrors(kw, literal) ==
    (IF Has(kw, "name") THEN {} ELSE {"name"})
    \cup (IF Has(kw, "dims") THEN {} ELSE {"dims"})
    \cup (IF Has(kw, "algorithm") /\ kw.algorithm.v # literal THEN {"algorithm"} ELSE {})
    \cup (IF DistanceMetricOk(kw) THEN {} ELSE {"distance_metric"})

FlatVectorField(kw) ==
    IF RedisVectorFieldErrors(kw, s_FLAT) # {}
    THEN ValidationError(RedisVectorFieldErrors(kw, s_FLAT))
    ELSE [cls |-> "FlatVectorField",
          name |-> kw.name.v,
          dims |-> kw.dims.v,
          algorithm |-> Get(kw, "algorithm", s_FLAT),
          datatype |-> VectorDatatype(kw),
          distance_metric |-> VectorDistanceMetric(kw),
          initial_cap |-> 20000,
          block_size |-> 1000]

HNSWVectorField(kw) ==
    IF RedisVectorFieldErrors(kw, s_HNSW) # {}
    THEN ValidationError(RedisVectorFieldErrors(kw, s_HNSW))
    ELSE [cls |-> "HNSWVectorField",
          name |-> kw.name.v,
          dims |-> kw.dims.v,
          algorithm |-> Get(kw, "algorithm", s_HNSW),
          datatype |-> VectorDatatype(kw),
          distance_metric |-> VectorDistanceMetric(kw),
          initial_cap |-> 20000,
          m |-> 16,
          ef_construction |-> 200,
          ef_runtime |-> 10,
          epsilon |-> "0.8"]

----------------------------------------------------------------------------
(* Field descriptors handed to the index client *)

as_field(self) ==
    CASE self.cls = "TextFieldSchema" ->
            [cls |-> "TextField", name |-> self.name, sortable |-> self.sortable,
             weight |-> self.weight, no_stem |-> self.no_stem,
             phonetic_matcher |-> self.phonetic_matcher]
      [] self.cls = "TagFieldSchema" ->
            [cls |-> "TagField", name |-> self.name, sortable |-> self.sortable,
             separator |-> self.separator, case_sensitive |-> self.case_sensitive]
      [] self.cls = "NumericFieldSchema" ->
            [cls |-> "NumericField", name |-> self.name, sortable |-> self.sortable]
      [] self.cls = "GeoFieldSchema" ->
            [cls |-> "GeoField", name |-> self.name, sortable |-> self.sortable]
      [] self.cls = "FlatVectorField" ->
            [cls |-> "VectorField", name |-> self.name, algorithm |-> self.algorithm,
             attributes |-> [TYPE |-> self.datatype, DIM |-> self.dims,
                             DISTANCE_METRIC |-> self.distance_metric,
                             INITIAL_CAP |-> self.initial_cap,
                             BLOCK_SIZE |-> self.block_size]]
      [] self.cls = "HNSWVectorField" ->
            [cls |-> "VectorField", name |-> self.name, algorithm |-> self.algorithm,
             attributes |-> [TYPE |-> self.datatype, DIM |-> self.dims,
                             DISTANCE_METRIC |-> self.distance_metric,
                             INITIAL_CAP |-> self.initial_cap,
                             M |-> self.m, EF_CONSTRUCTION |-> self.ef_construction,
                             EF_RUNTIME |-> self.ef_runtime, EPSILON |-> self.epsilon]]

----------------------------------------------------------------------------
(* RedisModel *)

PyNone == [t |-> "None"]
PyList(s) == [t |-> "list", v |-> s]
PyStr(s) == [t |-> "str", v |-> s]

(* The five list-valued attributes, in declaration order. *)
Groups == <<"tag", "text", "numeric", "geo", "vector">>

(* Variant of ModelFields: text declared before tag. *)
ModelFieldsTextFirst ==
    <<"text", "tag", "numeric", "geo", "vector", "content_key", "content_vector_key">>

(* self.__fields__.keys(): every declared attribute, in declaration order. *)
ModelFields == Groups \o <<"content_key", "content_vector_key">>

(* Union[FlatVectorField, HNSWVectorField]: the first member that validates. *)
VectorVariant(kw) ==
    IF ~IsError(FlatVectorField(kw)) THEN FlatVectorField(kw)
    ELSE IF ~IsError(HNSWVectorField(kw)) THEN HNSWVectorField(kw)
    ELSE ValidationError(FlatVectorField(kw).errors \cup HNSWVectorField(kw).errors)

ValidateTag(lst) == [i \in 1..Len(lst) |-> TagFieldSchema(lst[i])]
ValidateText(lst) == [i \in 1..Len(lst) |-> TextFieldSchema(lst[i])]
ValidateNumeric(lst) == [i \in 1..Len(lst) |-> NumericFieldSchema(lst[i])]
ValidateGeo(lst) == [i \in 1..Len(lst) |-> GeoFieldSchema(lst[i])]
ValidateVector(lst) == [i \in 1..Len(lst) |-> VectorVariant(lst[i])]

ValidateItems(g, lst) ==
    CASE g = "tag" -> ValidateTag(lst)
      [] g = "text" -> ValidateText(lst)
      [] g = "numeric" -> ValidateNumeric(lst)
      [] g = "geo" -> ValidateGeo(lst)
      [] g = "vector" -> ValidateVector(lst)

(* Whether None is an allowed value of the attribute (Optional[...]). *)
AllowNone(g) == g \in {"tag", "numeric", "geo"}

DefaultText == PyList(<<TextFieldSchema([name |-> Some(s_content), weight |-> Absent])>>)

DefaultVector ==
    PyList(<<FlatVectorField([name |-> Some(s_content_vector), dims |-> Some(1536),
                              algorithm |-> Absent, datatype |-> Absent,
                              distance_metric |-> Absent])>>)

GroupDefault(g) ==
    CASE g = "text" -> DefaultText
      [] g = "vector" -> DefaultVector
      [] OTHER -> PyNone

(* Whether the value supplied for group g validates. *)
GroupOk(g, kw) ==
    \/ ~Has(kw, g)
    \/ kw[g].v.t = "None" /\ AllowNone(g)
    \/ kw[g].v.t = "list"
         /\ \A i \in 1..Len(kw[g].v.v) : ~IsError(ValidateItems(g, kw[g].v.v)[i])

(* Variant of GroupValue: a supplied list is appended to the default. *)
GroupValueAppended(g, kw) ==
    IF ~Has(kw, g) THEN GroupDefault(g)
    ELSE IF kw[g].v.t = "None" THEN PyNone
    ELSE IF GroupDefault(g).t = "None" THEN PyList(ValidateItems(g, kw[g].v.v))
    ELSE PyList(GroupDefault(g).v \o ValidateItems(g, kw[g].v.v))

(* The value the constructed model holds for group g. *)
GroupValue(g, kw) ==
    IF ~Has(kw, g) THEN GroupDefault(g)
    ELSE IF kw[g].v.t = "None" THEN PyNone
    ELSE PyList(ValidateItems(g, kw[g].v.v))

RedisModelErrors(kw) == {Groups[i] : i \in {j \in DOMAIN Groups : ~GroupOk(Groups[j], kw)}}

RedisModel(kw) ==
    IF RedisModelErrors(kw) # {}
    THEN ValidationError(RedisModelErrors(kw))
    ELSE [cls |-> "RedisModel",
          tag |-> GroupValue("tag", kw),
          text |-> GroupValue("text", kw),
          numeric |-> GroupValue("numeric", kw),
          geo |-> GroupValue("geo", kw),
          vector |-> GroupValue("vector", kw),
          content_key |-> PyStr(Get(kw, "content_key", s_content)),
          content_vector_key |-> PyStr(Get(kw, "content_vector_key", s_content_vector))]

(* Indices of the entries of the vector list named content_vector_key. *)
VectorMatches(self) ==
    {i \in 1..Len(self.vector.v) : self.vector.v[i].name = self.content_vector_key.v}

(* Variant of Min: the last index. *)
Max(S) == CHOOSE x \in S : \A y \in S : x >= y

Min(S) == CHOOSE x \in S : \A y \in S : x <= y

content_vector(self) ==
    IF self.vector.t = "None"
    THEN [cls |-> "TypeError", msg |-> "'NoneType' object is not iterable"]
    ELSE IF VectorMatches(self) # {}
    THEN self.vector.v[Min(VectorMatches(self))]
    ELSE [cls |-> "ValueError", msg |-> "No content_vector field found"]

(* Variant of is_empty: an empty list counts as unset. *)
is_empty_falsy(self) ==
    \A i \in DOMAIN Groups :
        \/ self[Groups[i]].t = "None"
        \/ self[Groups[i]].t = "list" /\ Len(self[Groups[i]].v) = 0

is_empty(self) == \A i \in DOMAIN Groups : self[Groups[i]].t = "None"

(* Iterating a Python value: a list yields its items, a str its characters. *)
Iterate(x) ==
    IF x.t = "list" THEN x.v
    ELSE [i \in 1..Len(x.v) |-> [cls |-> "str", v |-> <<x.v[i]>>]]

MapAsField(items) == [i \in 1..Len(items) |-> as_field(items[i])]

(* The descriptors the loop of get_fields appends for attributes i.. *)
RECURSIVE get_fields_from(_, _)
get_fields_from(self, i) ==
    IF i > Len(ModelFields) THEN <<>>
    ELSE (IF ModelFields[i] \notin {"content_key", "content_vector_key"}
             /\ self[ModelFields[i]].t # "None"
          THEN MapAsField(Iterate(self[ModelFields[i]]))
          ELSE <<>>)
         \o get_fields_from(self, i + 1)

get_fields(self) == IF is_empty(self) THEN <<>> ELSE get_fields_from(self, 1)

isinstance_str(field) == field.cls = "str"

(* Variant of keys_of_items: no isinstance guard, a str item is appended as
   it is. *)
RECURSIVE keys_of_items_unguarded(_)
keys_of_items_unguarded(items) ==
    IF Len(items) = 0 THEN <<>>
    ELSE (IF isinstance_str(Head(items)) THEN <<Head(items).v>> ELSE <<Head(items).name>>)
         \o keys_of_items_unguarded(Tail(items))

(* The names the inner loop of keys appends for one attribute value. *)
RECURSIVE keys_of_items(_)
keys_of_items(items) ==
    IF Len(items) = 0 THEN <<>>
    ELSE (IF ~isinstance_str(Head(items)) THEN <<Head(items).name>> ELSE <<>>)
         \o keys_of_items(Tail(items))

RECURSIVE keys_from(_, _)
keys_from(self, i) ==
    IF i > Len(ModelFields) THEN <<>>
    ELSE (IF self[ModelFields[i]].t # "None"
          THEN keys_of_items(Iterate(self[ModelFields[i]]))
          ELSE <<>>)
         \o keys_from(self, i + 1)

keys(self) == IF is_empty(self) THEN <<>> ELSE keys_from(self, 1)

----------------------------------------------------------------------------
(* read_schema *)

p_schema == <<"s",".","y","m","l">>
p_list == <<"l",".","y","m","l">>
p_blank == <<"e",".","y","m","l">>
p_broken == <<"x",".","y","m","l">>
p_missing == <<"n",".","y","m","l">>
p_inline == <<"t","e","x","t",":"," ","[","]">>
p_inline_long ==
    <<"t","e","x","t",":"," ","[","{","n","a","m","e",":"," ">>
    \o [i \in 1..256 |-> "a"] \o <<"}","]">>

(* The regular files of the file system, each with the document its bytes
   hold: a mapping, a sequence, nothing at all, or text that is not YAML. *)
Files ==
    [path \in {p_schema, p_list, p_blank, p_broken} |->
        CASE path = p_schema ->
                [t |-> "dict",
                 mapping |-> [tag |-> Absent,
                              text |-> Some(PyList(<<[name |-> Some(s_b), weight |-> Absent]>>)),
                              numeric |-> Absent, geo |-> Absent, vector |-> Absent,
                              content_key |-> Absent, content_vector_key |-> Some(s_v)]]
          [] path = p_list -> [t |-> "list"]
          [] path = p_blank -> [t |-> "None"]
          [] path = p_broken -> [t |-> "YAMLError"]]

(* A path with a name component of more than 255 characters: the stat call
   fails with ENAMETOOLONG. *)
NameTooLong(path) ==
    \E i \in 1..(Len(path) - 255) : \A j \in i..(i + 255) : path[j] # "/"

(* Path(index_schema).is_file(): "True" for a regular file, "False" when the
   lookup finds none. A lookup that fails with ENAMETOOLONG raises OSError on
   POSIX systems (is_file swallows only ENOENT, ENOTDIR, EBADF and ELOOP);
   elsewhere the name is reported as invalid and the answer is "False". *)
is_file(path) ==
    IF path \in DOMAIN Files THEN {"True"}
    ELSE IF NameTooLong(path) THEN {"OSError", "False"}
    ELSE {"False"}

(* yaml.safe_load(f) on the opened file *)
yaml_safe_load(path) == Files[path]

TypeError(message, type) == [cls |-> "TypeError", msg |-> message, got |-> type]

ReturnedNone == [cls |-> "NoneType"]

(* Unpacking the value into RedisModel's keyword arguments needs a mapping. *)
RedisModelFrom(value) ==
    IF value.t = "dict" THEN RedisModel(value.mapping)
    ELSE TypeError("argument after ** must be a mapping", value.t)

(* Variant of read_schema: a str or Path that names no file is an error. *)
read_schema_strict(schema, answer) ==
    IF schema.t = "dict" THEN RedisModelFrom(schema)
    ELSE IF schema.t \in {"str", "Path"}
    THEN IF answer = "OSError" THEN [cls |-> "OSError", msg |-> "File name too long"]
         ELSE IF answer = "True"
         THEN IF yaml_safe_load(schema.path).t = "YAMLError"
              THEN [cls |-> "YAMLError"]
              ELSE RedisModelFrom(yaml_safe_load(schema.path))
         ELSE [cls |-> "FileNotFoundError", msg |-> "No such file"]
    ELSE TypeError("index_schema must be a dict, path to a yaml file, or a yaml string.",
                   schema.t)

(* read_schema(index_schema); `answer` is what is_file yields when the str /
   Path branch asks it. *)
read_schema(schema, answer) ==
    IF schema.t = "dict" THEN RedisModelFrom(schema)
    ELSE IF schema.t \in {"str", "Path"}
    THEN IF answer = "OSError" THEN [cls |-> "OSError", msg |-> "File name too long"]
         ELSE IF answer = "True"
         THEN IF yaml_safe_load(schema.path).t = "YAMLError"
              THEN [cls |-> "YAMLError"]
              ELSE RedisModelFrom(yaml_safe_load(schema.path))
         ELSE ReturnedNone
    ELSE TypeError("index_schema must be a dict, path to a yaml file, or a yaml string.",
                   schema.t)

(* The answers is_file can give during read_schema(schema). *)
IsFileAnswers(schema) ==
    IF schema.t \in {"str", "Path"} THEN is_file(schema.path) ELSE {"False"}

----------------------------------------------------------------------------
(* Inputs *)

(* The largest number of field definitions one input mapping holds. *)
MaxFields == 2

SeqsUpTo(S, n) == UNION {[1..k -> S] : k \in 0..n}

ListOpts(S, n) == {Absent} \cup {Some(PyList(lst)) : lst \in SeqsUpTo(S, n)}

Count(o) == IF o.has /\ o.v.t = "list" THEN Len(o.v.v) ELSE 0

TagDefs == {[name |-> Some(n)] : n \in {s_a, s_b}}

TextDefs ==
    {[name |-> Some(s_content), weight |-> Absent],
     [name |-> Some(s_a), weight |-> Some(2)]}

NumericDefs == {[name |-> Some(s_v)]}

GeoDefs == {[name |-> Some(s_w)]}

VectorDefs ==
    {[name |-> Some(s_content_vector), dims |-> Some(3), algorithm |-> Some(s_FLAT),
      datatype |-> Absent, distance_metric |-> Absent],
     [name |-> Some(s_content_vector), dims |-> Some(3), algorithm |-> Some(s_HNSW),
      datatype |-> Absent, distance_metric |-> Some(s_l2)],
     [name |-> Some(s_v), dims |-> Some(3), algorithm |-> Absent,
      datatype |-> Absent, distance_metric |-> Absent],
     [name |-> Some(s_v), dims |-> Some(3), algorithm |-> Some(s_IVF),
      datatype |-> Absent, distance_metric |-> Absent]}

Mapping(tg, tx, nu, ge, ve, ck, cvk) ==
    [tag |-> tg, text |-> tx, numeric |-> nu, geo |-> ge, vector |-> ve,
     content_key |-> ck, content_vector_key |-> cvk]

PathStrings ==
    {p_schema, p_list, p_blank, p_broken, p_missing, p_inline, p_inline_long, s_empty}

(* The inputs that are no mapping: str and Path values, and values of other
   types (an int, None, a list). *)
OtherInputs ==
    {[t |-> "str", path |-> p] : p \in PathStrings}
    \cup {[t |-> "Path", path |-> p] : p \in PathStrings}
    \cup {[t |-> "int"], [t |-> "None"], [t |-> "list"]}

(* index_schema is a mapping over the optional keys of RedisModel with at
   most MaxFields field definitions in all. *)
IsMappingInput(schema) ==
    \E tg \in ListOpts(TagDefs, MaxFields) :
    \E tx \in ListOpts(TextDefs, MaxFields - Count(tg)) \cup {Some(PyNone)} :
    \E nu \in ListOpts(NumericDefs, MaxFields - Count(tg) - Count(tx)) :
    \E ge \in ListOpts(GeoDefs, MaxFields - Count(tg) - Count(tx) - Count(nu)) :
    \E ve \in ListOpts(VectorDefs,
                       MaxFields - Count(tg) - Count(tx) - Count(nu) - Count(ge)) :
    \E ck \in Opt({s_empty}) :
    \E cvk \in Opt({s_v}) :
        schema = [t |-> "dict", mapping |-> Mapping(tg, tx, nu, ge, ve, ck, cvk)]

NameOpts == Opt({s_empty, s_a})

RedisFieldKw == {[name |-> n] : n \in NameOpts}

TextKw == {[name |-> n, weight |-> w] : n \in NameOpts, w \in Opt({-1, 0, 2})}

VectorKw ==
    {[name |-> n, dims |-> d, algorithm |-> a, datatype |-> ty, distance_metric |-> dm] :
        n \in NameOpts,
        d \in Opt({-1, 0, 3}),
        a \in Opt({s_FLAT, s_HNSW, s_IVF, s_flat}),
        ty \in Opt({s_float32, s_Float64}),
        dm \in Opt({s_cosine, s_Cosine, s_COSINE, s_l2, s_ip, s_XYZ, s_xyz})}

----------------------------------------------------------------------------
(* Loading one schema and using the model it yields *)

NoModel == [cls |-> "NoModel"]

Init ==
    /\ \/ IsMappingInput(index_schema)
       \/ index_schema \in OtherInputs
    /\ model = NoModel
    /\ ret = [op |-> "none"]
    /\ pc = "start"

ReadSchema ==
    /\ pc = "start"
    /\ \E answer \in IsFileAnswers(index_schema) :
          /\ ret' = [op |-> "read_schema", out |-> read_schema(index_schema, answer)]
          /\ model' = IF read_schema(index_schema, answer).cls = "RedisModel"
                      THEN read_schema(index_schema, answer)
                      ELSE NoModel
    /\ pc' = "done"
    /\ UNCHANGED index_schema

Loaded == pc = "done" /\ model.cls = "RedisModel"

GetFields ==
    /\ Loaded
    /\ ret' = [op |-> "get_fields", out |-> get_fields(model)]
    /\ UNCHANGED <<index_schema, model, pc>>

Keys ==
    /\ Loaded
    /\ ret' = [op |-> "keys", out |-> keys(model)]
    /\ UNCHANGED <<index_schema, model, pc>>

ContentVector ==
    /\ Loaded
    /\ ret' = [op |-> "content_vector", out |-> content_vector(model)]
    /\ UNCHANGED <<index_schema, model, pc>>

IsEmpty ==
    /\ Loaded
    /\ ret' = [op |-> "is_empty", out |-> is_empty(model)]
    /\ UNCHANGED <<index_schema, model, pc>>

(* model.text = None, model.vector = None: attributes are assignable and an
   assignment is not validated. (tag, numeric and geo are None already when
   the input omits them, so assigning None to them yields no model that
   construction does not yield.) *)
SetGroupNone ==
    /\ Loaded
    /\ \E g \in {"text", "vector"} :
          model' = [model EXCEPT ![g] = PyNone]
    /\ ret' = [op |-> "setattr"]
    /\ UNCHANGED <<index_schema, pc>>

Next == ReadSchema \/ GetFields \/ Keys \/ ContentVector \/ IsEmpty \/ SetGroupNone

Spec == Init /\ [][Next]_vars

----------------------------------------------------------------------------
(* Constructing single field schemas *)

InitField ==
    /\ index_schema = [t |-> "None"]
    /\ model = NoModel
    /\ ret = [op |-> "none"]
    /\ pc = "field"

Construct(class, kw, out) ==
    /\ pc = "field"
    /\ ret' = [op |-> class, kw |-> kw, out |-> out]
    /\ pc' = "built"
    /\ UNCHANGED <<index_schema, model>>

ConstructText == \E kw \in TextKw : Construct("TextFieldSchema", kw, TextFieldSchema(kw))

ConstructTag == \E kw \in RedisFieldKw : Construct("TagFieldSchema", kw, TagFieldSchema(kw))

ConstructNumeric ==
    \E kw \in RedisFieldKw : Construct("NumericFieldSchema", kw, NumericFieldSchema(kw))

ConstructGeo == \E kw \in RedisFieldKw : Construct("GeoFieldSchema", kw, GeoFieldSchema(kw))

ConstructFlat == \E kw \in VectorKw : Construct("FlatVectorField", kw, FlatVectorField(kw))

ConstructHNSW == \E kw \in VectorKw : Construct("HNSWVectorField", kw, HNSWVectorField(kw))

NextField ==
    \/ ConstructText
    \/ ConstructTag
    \/ ConstructNumeric
    \/ ConstructGeo
    \/ ConstructFlat
    \/ ConstructHNSW

SpecField == InitField /\ [][NextField]_vars

----------------------------------------------------------------------------
(* Properties *)

PresentLen(self, g) == IF self[g].t = "None" THEN 0 ELSE Len(self[g].v)

(* The number of fields in the present groups that precede group gi. *)
RECURSIVE LenBefore(_, _)
LenBefore(self, gi) ==
    IF gi = 1 THEN 0
    ELSE LenBefore(self, gi - 1) + PresentLen(self, Groups[gi - 1])

TotalLen(self) == LenBefore(self, Len(Groups) + 1)

(* C1: get_fields() returns exactly one descriptor per field of every present
   group: its length is the sum of the lengths of the present groups, the
   groups come in the order tag, text, numeric, geo, vector, each group keeps
   its list order, and content_key / content_vector_key add nothing. *)
C1_GetFieldsFlattensGroups ==
    ret.op = "get_fields" =>
        /\ Len(ret.out) = TotalLen(model)
        /\ \A gi \in DOMAIN Groups :
              model[Groups[gi]].t = "list" =>
                 \A j \in 1..Len(model[Groups[gi]].v) :
                    ret.out[LenBefore(model, gi) + j] = as_field(model[Groups[gi]].v[j])

C1_Witness ==
    /\ ret.op = "get_fields"
    /\ model.tag.t = "list" /\ Len(model.tag.v) = 2
    /\ model.tag.v[1].name # model.tag.v[2].name
    /\ model.numeric.t = "None"
    /\ model.text.t = "list" /\ model.vector.t = "list"
    /\ Len(ret.out) = 4

(* C2: keys returns exactly the names of the fields of the present groups, in
   group order and list order; a None group is skipped and the strings held
   by content_key and content_vector_key add no entry. *)
C2_KeysAreFieldNames ==
    ret.op = "keys" =>
        /\ Len(ret.out) = TotalLen(model)
        /\ \A gi \in DOMAIN Groups :
              model[Groups[gi]].t = "list" =>
                 \A j \in 1..Len(model[Groups[gi]].v) :
                    ret.out[LenBefore(model, gi) + j] = model[Groups[gi]].v[j].name

C2_Witness ==
    /\ ret.op = "keys"
    /\ model.content_key.v = s_content
    /\ model.content_vector_key.v = s_v
    /\ model.tag.t = "list" /\ Len(model.tag.v) = 2
    /\ model.geo.t = "None"
    /\ ret.out = <<model.tag.v[1].name, model.tag.v[2].name, s_content, s_content_vector>>

(* C3: on a constructed model content_vector returns the first entry of the
   vector list named content_vector_key, and fails with the lookup error
   "No content_vector field found" when no entry has that name. *)
C3_ContentVectorFirstMatch ==
    (ret.op = "content_vector" /\ model.vector.t = "list") =>
        /\ \A i \in 1..Len(model.vector.v) :
              (/\ model.vector.v[i].name = model.content_vector_key.v
               /\ \A j \in 1..(i - 1) :
                     model.vector.v[j].name # model.content_vector_key.v)
              => ret.out = model.vector.v[i]
        /\ (\A i \in 1..Len(model.vector.v) :
               model.vector.v[i].name # model.content_vector_key.v)
           => ret.out = [cls |-> "ValueError", msg |-> "No content_vector field found"]

C3_Witness ==
    /\ ret.op = "content_vector"
    /\ model.vector.t = "list" /\ Len(model.vector.v) = 2
    /\ model.vector.v[1].name = model.content_vector_key.v
    /\ model.vector.v[2].name = model.content_vector_key.v
    /\ model.vector.v[1].cls # model.vector.v[2].cls
    /\ ret.out.cls = model.vector.v[1].cls

(* C4: is_empty is true exactly when tag, text, numeric, geo and vector are
   all None; a group that is an empty list counts as set. *)
C4_IsEmptyIffAllNone ==
    ret.op = "is_empty" =>
        (ret.out <=> /\ model.tag.t = "None"
                     /\ model.text.t = "None"
                     /\ model.numeric.t = "None"
                     /\ model.geo.t = "None"
                     /\ model.vector.t = "None")

C4_Witness == ret.op = "is_empty" /\ ret.out = TRUE

(* The mapping a successful read_schema handed to RedisModel. *)
LoadedMapping ==
    IF index_schema.t = "dict" THEN index_schema.mapping
    ELSE yaml_safe_load(index_schema.path).mapping

(* C5: a group key the input omits takes its declared default (vector: one
   FLAT entry "content_vector" with dims 1536; text: one entry "content"),
   and a supplied text or vector list replaces the default entirely. *)
C5_DefaultsWhenOmitted ==
    (ret.op = "read_schema" /\ ret.out.cls = "RedisModel") =>
        /\ ~LoadedMapping.vector.has =>
              /\ Len(ret.out.vector.v) = 1
              /\ ret.out.vector.v[1].cls = "FlatVectorField"
              /\ ret.out.vector.v[1].name = s_content_vector
              /\ ret.out.vector.v[1].dims = 1536
              /\ ret.out.vector.v[1].algorithm = s_FLAT
        /\ ~LoadedMapping.text.has =>
              /\ Len(ret.out.text.v) = 1
              /\ ret.out.text.v[1].name = s_content
        /\ LoadedMapping.vector.has =>
              /\ Len(ret.out.vector.v) = Len(LoadedMapping.vector.v.v)
              /\ \A i \in 1..Len(ret.out.vector.v) :
                    ret.out.vector.v[i].name = LoadedMapping.vector.v.v[i].name.v
        /\ LoadedMapping.text.has =>
              /\ Len(ret.out.text.v) = Len(LoadedMapping.text.v.v)
              /\ \A i \in 1..Len(ret.out.text.v) :
                    ret.out.text.v[i].name = LoadedMapping.text.v.v[i].name.v

C5_Witness ==
    /\ ret.op = "read_schema" /\ ret.out.cls = "RedisModel"
    /\ index_schema.t = "dict"
    /\ ~index_schema.mapping.vector.has
    /\ index_schema.mapping.text.has
    /\ Len(index_schema.mapping.text.v.v) = 1
    /\ ret.out.text.v[1].name = s_a
    /\ Len(ret.out.vector.v) = 1

IsUpperCase(str) ==
    \A i \in 1..Len(str) : \A k \in DOMAIN LowerLetters : str[i] # LowerLetters[k]

SameIgnoringCase(a, b) ==
    /\ Len(a) = Len(b)
    /\ \A i \in 1..Len(a) :
          \/ a[i] = b[i]
          \/ \E k \in DOMAIN LowerLetters :
                {a[i], b[i]} = {LowerLetters[k], UpperLetters[k]}

VectorClasses == {"FlatVectorField", "HNSWVectorField"}

(* C6: a constructed vector field holds datatype and distance_metric in upper
   case, whatever the case of the input and also when defaulted, and its
   distance_metric is one of L2, COSINE, IP; a distance_metric that is none
   of these after upper-casing fails validation. *)
C6_UpperCasedMetricAndDatatype ==
    ret.op \in VectorClasses =>
        /\ ret.out.cls # "ValidationError" =>
              /\ IsUpperCase(ret.out.datatype)
              /\ IsUpperCase(ret.out.distance_metric)
              /\ ret.out.distance_metric \in {s_L2, s_COSINE, s_IP}
              /\ ret.kw.datatype.has =>
                    SameIgnoringCase(ret.out.datatype, ret.kw.datatype.v)
              /\ ret.kw.distance_metric.has =>
                    SameIgnoringCase(ret.out.distance_metric, ret.kw.distance_metric.v)
        /\ (/\ ret.kw.distance_metric.has
            /\ \A metric \in {s_L2, s_COSINE, s_IP} :
                  ~SameIgnoringCase(ret.kw.distance_metric.v, metric))
           => (ret.out.cls = "ValidationError" /\ "distance_metric" \in ret.out.errors)

C6_Witness ==
    /\ ret.op = "HNSWVectorField"
    /\ ret.kw.distance_metric = Some(s_cosine)
    /\ ret.kw.datatype = Some(s_Float64)
    /\ ret.out.cls = "HNSWVectorField"
    /\ ret.out.distance_metric = s_COSINE
    /\ ret.out.datatype # ret.kw.datatype.v

(* C7: every entry of a constructed model's vector list is one of the two
   variants, selected by the algorithm of its definition: "FLAT" gives the
   FLAT variant (with block_size), "HNSW" the HNSW variant (with m,
   ef_construction, ef_runtime, epsilon), any other algorithm fails
   validation of the model; the entry's descriptor carries that algorithm. *)
C7_VariantByAlgorithm ==
    (ret.op = "read_schema" /\ index_schema.t = "dict") =>
        /\ (/\ index_schema.mapping.vector.has
            /\ \E i \in 1..Len(index_schema.mapping.vector.v.v) :
                  /\ index_schema.mapping.vector.v.v[i].algorithm.has
                  /\ index_schema.mapping.vector.v.v[i].algorithm.v \notin {s_FLAT, s_HNSW})
           => ret.out.cls = "ValidationError"
        /\ ret.out.cls = "RedisModel" =>
              \A i \in 1..Len(ret.out.vector.v) :
                 /\ ret.out.vector.v[i].cls \in VectorClasses
                 /\ ret.out.vector.v[i].cls = "FlatVectorField" =>
                       /\ ret.out.vector.v[i].algorithm = s_FLAT
                       /\ "block_size" \in DOMAIN ret.out.vector.v[i]
                       /\ "m" \notin DOMAIN ret.out.vector.v[i]
                 /\ ret.out.vector.v[i].cls = "HNSWVectorField" =>
                       /\ ret.out.vector.v[i].algorithm = s_HNSW
                       /\ {"m", "ef_construction", "ef_runtime", "epsilon"}
                             \subseteq DOMAIN ret.out.vector.v[i]
                       /\ "block_size" \notin DOMAIN ret.out.vector.v[i]
                 /\ as_field(ret.out.vector.v[i]).algorithm = ret.out.vector.v[i].algorithm
                 /\ (/\ index_schema.mapping.vector.has
                     /\ index_schema.mapping.vector.v.v[i].algorithm.has)
                    => ret.out.vector.v[i].algorithm
                          = index_schema.mapping.vector.v.v[i].algorithm.v

C7_Witness ==
    /\ ret.op = "read_schema" /\ index_schema.t = "dict"
    /\ ret.out.cls = "RedisModel"
    /\ Len(ret.out.vector.v) = 2
    /\ index_schema.mapping.vector.v.v[1].algorithm = Some(s_HNSW)
    /\ index_schema.mapping.vector.v.v[2].algorithm = Some(s_FLAT)
    /\ ret.out.vector.v[1].cls = "HNSWVectorField"
    /\ ret.out.vector.v[2].cls = "FlatVectorField"

(* C8 as stated: a field definition with an empty name, a text field with a
   non-positive weight and a vector field with non-positive dims are each
   rejected with a validation error. *)
C8_RangeConstraintsEnforced ==
    ret.op # "none" =>
        /\ (ret.kw.name.has /\ ret.kw.name.v = s_empty) => ret.out.cls = "ValidationError"
        /\ (ret.op = "TextFieldSchema" /\ ret.kw.weight.has /\ ret.kw.weight.v <= 0)
           => ret.out.cls = "ValidationError"
        /\ (ret.op \in VectorClasses /\ ret.kw.dims.has /\ ret.kw.dims.v <= 0)
           => ret.out.cls = "ValidationError"

(* C8 amended: construction enforces presence, not range. A definition
   without name, and a vector definition without dims, is rejected with a
   validation error naming the field; a name, weight or dims that is present
   is never the cause of a rejection and is stored as given, be it an empty
   name, a non-positive weight or non-positive dims. *)
C8_PresenceOnlyEnforced ==
    ret.op # "none" =>
        /\ ~ret.kw.name.has =>
              (ret.out.cls = "ValidationError" /\ "name" \in ret.out.errors)
        /\ (ret.op \in VectorClasses /\ ~ret.kw.dims.has) =>
              (ret.out.cls = "ValidationError" /\ "dims" \in ret.out.errors)
        /\ (ret.op \notin VectorClasses /\ ret.kw.name.has) =>
              (ret.out.cls = ret.op /\ ret.out.name = ret.kw.name.v)
        /\ (ret.op = "TextFieldSchema" /\ ret.kw.name.has /\ ret.kw.weight.has) =>
              ret.out.weight = ret.kw.weight.v
        /\ (ret.op \in VectorClasses /\ ret.out.cls = "ValidationError") =>
              /\ "name" \in ret.out.errors => ~ret.kw.name.has
              /\ "dims" \in ret.out.errors => ~ret.kw.dims.has
        /\ (ret.op \in VectorClasses /\ ret.out.cls # "ValidationError") =>
              (ret.out.name = ret.kw.name.v /\ ret.out.dims = ret.kw.dims.v)

C8_Witness ==
    /\ ret.op = "TextFieldSchema"
    /\ ret.kw.name = Some(s_empty)
    /\ ret.kw.weight = Some(-1)
    /\ ret.out.cls = "TextFieldSchema"
    /\ ret.out.name = s_empty
    /\ ret.out.weight = -1

(* C9 as stated: read_schema given a str or Path that names no existing file
   constructs no model, raises nothing and returns None, for every such
   string, also one that is itself well-formed schema text. *)
C9_MissingFileFallsThrough ==
    (/\ ret.op = "read_schema"
     /\ index_schema.t \in {"str", "Path"}
     /\ index_schema.path \notin DOMAIN Files)
    => (ret.out = [cls |-> "NoneType"] /\ model = NoModel)

(* C9 amended: read_schema given a str or Path that names no existing file
   constructs no model; it raises nothing and returns None whenever the
   file-system lookup answers, also for a string that is itself well-formed
   schema text; only when the lookup itself fails, as for a name of more than
   255 characters, the OSError of is_file may come out instead. *)
C9_FallsThroughUnlessLookupFails ==
    (/\ ret.op = "read_schema"
     /\ index_schema.t \in {"str", "Path"}
     /\ index_schema.path \notin DOMAIN Files)
    => /\ model = NoModel
       /\ \/ ret.out = [cls |-> "NoneType"]
          \/ ret.out.cls = "OSError" /\ Len(index_schema.path) > 255
       /\ Len(index_schema.path) <= 255 => ret.out = [cls |-> "NoneType"]

C9_Witness ==
    /\ ret.op = "read_schema"
    /\ index_schema = [t |-> "str", path |-> p_inline]
    /\ ret.out.cls = "NoneType"
    /\ model = NoModel

(* C10: read_schema raises a TypeError naming the received type, and
   constructs no model, for an input that is no dict, str or Path, and raises
   a TypeError for no input that is one of these. *)
C10_TypeErrorIffOtherType ==
    ret.op = "read_schema" =>
        /\ index_schema.t \notin {"dict", "str", "Path"} =>
              /\ ret.out.cls = "TypeError"
              /\ ret.out.got = index_schema.t
              /\ model = NoModel
        /\ index_schema.t \in {"dict", "str", "Path"} => ret.out.cls # "TypeError"

====
